---- MODULE Spec2Model ----
(***************************************************************************)
(* smash-kill-clipper: frame scoring (detectGlobalRed), temporal           *)
(* clustering (deduplicateKillScreens, analyzeDetectionClusters), segment  *)
(* planning / video generation (createVideoSegments, generateVideo) and    *)
(* the detection runs (detectOnly, processVideo, batchDetect).             *)
(*                                                                         *)
(* Numbers.  JavaScript numbers are modelled exactly:                      *)
(*   - scores of the frame scorer are rationals [n, d] in lowest terms;    *)
(*   - times handled by the clusterer are integers in ticks of one frame   *)
(*     period (1/FrameRate s); times of the planner and of the project     *)
(*     file are integers in seconds;                                       *)
(*   - confidences handled by the clusterer are integers in units of       *)
(*     1/ConfOne (hundredths).                                             *)
(* IEEE-754 rounding is not modelled.                                      *)
(***************************************************************************)
EXTENDS Integers, Sequences, FiniteSets, TLC

VARIABLES
    frame,         \* scorer: the decoded image { data, info } (sharp raw buffer)
    scoreResult,   \* scorer: what detectGlobalRed returned (with its locals), or NoResult
    dedupIn,       \* clusterer: arguments of the deduplicateKillScreens call
    dedupOut,      \* clusterer: clusters built and list returned, or NoResult
    rerunOut,      \* clusterer: result of calling it again on its own output
    project,       \* generation: parsed project file (processingOptions, detections)
    options,       \* generation: command line options of generate-video
    gen,           \* generation: control state of generateVideo and the slicer
    planIn,        \* planner: timestamps, beforeSeconds, afterSeconds
    planOut,       \* planner: segments of createVideoSegments and of generateVideo
    analysisOut,   \* clusterer: what analyzeDetectionClusters returned, or NoResult
    video,         \* detection run: the input video as its frames and their scoring
    det            \* detection run: control state of detectOnly / processVideo

vars == <<frame, scoreResult, dedupIn, dedupOut, rerunOut, project, options, gen,
          planIn, planOut, analysisOut, video, det>>

NoResult == [none |-> TRUE]

\* ------------------------------------------------------------------ bounds
MaxDim == 6          \* largest frame width and height drawn
MaxTick == 5         \* latest sample time drawn, in ticks
MaxWindow == 2       \* largest mergeWindowSeconds drawn, in ticks
MaxMinSize == 2      \* largest minConsecutiveDetections drawn
MaxTime == 2         \* latest record time in a project file, in seconds
MaxOverride == 1     \* largest --before / --after override drawn, in seconds
MaxPlanTime == 4     \* planner: latest event time drawn, in seconds
MaxLead == 3         \* planner: largest lead and trail drawn, in seconds

\* ------------------------------------------------------------- arithmetic
RECURSIVE GCD(_, _)
GCD(a, b) == IF b = 0 THEN a ELSE GCD(b, a % b)

Abs(x) == IF x < 0 THEN -x ELSE x

LCM(a, b) == (a \div GCD(a, b)) * b

\* the rational n/d (d > 0) in lowest terms
Rat(n, d) ==
    LET g == GCD(Abs(n), d)
    IN  [n |-> n \div g, d |-> d \div g]

RInt(k) == [n |-> k, d |-> 1]

RAdd(a, b) ==
    LET l == LCM(a.d, b.d)
    IN  Rat(a.n * (l \div a.d) + b.n * (l \div b.d), l)

RSub(a, b) == RAdd(a, [n |-> -b.n, d |-> b.d])

RMul(a, b) ==
    LET g1 == GCD(Abs(a.n), b.d)
        g2 == GCD(Abs(b.n), a.d)
    IN  [n |-> (a.n \div g1) * (b.n \div g2), d |-> (a.d \div g2) * (b.d \div g1)]

RLess(a, b) ==
    LET l == LCM(a.d, b.d)
    IN  a.n * (l \div a.d) < b.n * (l \div b.d)

RLeq(a, b) == ~RLess(b, a)

RMin(a, b) == IF RLess(b, a) THEN b ELSE a

RMax(a, b) == IF RLess(a, b) THEN b ELSE a

Max(a, b) == IF a > b THEN a ELSE b

Min(a, b) == IF a < b THEN a ELSE b

\* a sequence given as a function on 1..n, as a tuple
AsSeq(s) == SelectSeq(s, LAMBDA e : TRUE)

RECURSIVE SumSeq(_)
SumSeq(s) == IF s = <<>> THEN 0 ELSE Head(s) + SumSeq(Tail(s))

\* ============================================================ FrameScorer
\* src/src/analysis/global-red-detection.ts

gridSize == 3              \* cells per side of the analysis grid
RedFloor == 100            \* a red pixel needs r > 100
FullIntensity == 100       \* average margin that gives the full intensity score
CellRedTenths == 3         \* a cell counts as red above a ratio of 0.3
CoverageFactor == 2        \* coverage score = coverage * 2, capped at 1
NonRedFactor == 3          \* non-red score = 1 - nonRedArea * 3, floored at 0
WeightCoverage == 4        \* weights of killScore, in tenths
WeightUniformity == 3
WeightIntensity == 2
WeightNonRed == 1
KillTenths == 8            \* isKillScreen: killScore > 0.8

Undefined == -1            \* a read past the end of the buffer

\* data[off] of a 0-indexed byte buffer
Byte(data, off) ==
    IF off >= 0 /\ off < Len(data) THEN data[off + 1] ELSE Undefined

\* a > b as JavaScript evaluates it (false when an operand is undefined)
JsGreater(a, b) == a # Undefined /\ b # Undefined /\ a > b

PixelR(f, x, y) == Byte(f.data, (y * f.width + x) * f.channels)
PixelG(f, x, y) == Byte(f.data, (y * f.width + x) * f.channels + 1)
PixelB(f, x, y) == Byte(f.data, (y * f.width + x) * f.channels + 2)

\* faulty variant: non-strict comparisons and no brightness floor
IsRedPixelNoFloor(r, g, b) ==
    /\ r # Undefined /\ g # Undefined /\ b # Undefined
    /\ r >= g
    /\ r >= b

\* r > g && r > b && r > 100
IsRedPixel(r, g, b) ==
    /\ JsGreater(r, g)
    /\ JsGreater(r, b)
    /\ JsGreater(r, RedFloor)

cellWidth(f) == f.width \div gridSize
cellHeight(f) == f.height \div gridSize

CellStartX(f, gridX) == gridX * cellWidth(f)
CellStartY(f, gridY) == gridY * cellHeight(f)
CellEndX(f, gridX) == Min(CellStartX(f, gridX) + cellWidth(f), f.width)
CellEndY(f, gridY) == Min(CellStartY(f, gridY) + cellHeight(f), f.height)

\* the pixels the two inner loops visit for one cell, in loop order
CellPixels(f, gridX, gridY) ==
    LET sx == CellStartX(f, gridX)
        sy == CellStartY(f, gridY)
        cw == Max(0, CellEndX(f, gridX) - sx)
        ch == Max(0, CellEndY(f, gridY) - sy)
    IN  [k \in 1..(cw * ch) |->
            [x |-> sx + ((k - 1) % cw), y |-> sy + ((k - 1) \div cw)]]

\* the counters one iteration of the grid loops accumulates
CellScan(f, gridX, gridY) ==
    LET pix  == CellPixels(f, gridX, gridY)
        red(p) == IsRedPixel(PixelR(f, p.x, p.y), PixelG(f, p.x, p.y), PixelB(f, p.x, p.y))
        reds == SelectSeq(pix, red)
        ints == AsSeq([k \in 1..Len(reds) |->
                    PixelR(f, reds[k].x, reds[k].y)
                      - Max(PixelG(f, reds[k].x, reds[k].y), PixelB(f, reds[k].x, reds[k].y))])
    IN  [cellRedPixels    |-> Len(reds),
         cellTotalPixels  |-> Len(pix),
         cellRedIntensity |-> SumSeq(ints),
         intensities      |-> ints]

\* the entry pushed to redCells for one cell
RedCell(gridX, gridY, c) ==
    [x |-> gridX,
     y |-> gridY,
     redRatio |-> IF c.cellTotalPixels > 0
                  THEN Rat(c.cellRedPixels, c.cellTotalPixels) ELSE RInt(0),
     avgRedIntensity |-> IF c.cellRedPixels > 0
                         THEN Rat(c.cellRedIntensity, c.cellRedPixels) ELSE RInt(0)]

\* cells in the order of the grid loops: gridY outer, gridX inner
GridOrder ==
    AsSeq([k \in 1..(gridSize * gridSize) |->
              [gridX |-> (k - 1) % gridSize, gridY |-> (k - 1) \div gridSize]])

RECURSIVE Concat(_)
Concat(ss) == IF ss = <<>> THEN <<>> ELSE Head(ss) \o Concat(Tail(ss))

GridScan(f) ==
    LET scans == AsSeq([k \in 1..Len(GridOrder) |->
                     CellScan(f, GridOrder[k].gridX, GridOrder[k].gridY)])
    IN  [redCells |-> [k \in 1..Len(GridOrder) |->
                          RedCell(GridOrder[k].gridX, GridOrder[k].gridY, scans[k])],
         cellTotals |-> [k \in 1..Len(GridOrder) |-> scans[k].cellTotalPixels],
         totalRedPixels |-> SumSeq([k \in 1..Len(GridOrder) |-> scans[k].cellRedPixels]),
         redIntensities |-> Concat([k \in 1..Len(GridOrder) |-> scans[k].intensities])]

\* faulty variant: the coverage score without its cap at 1
globalRedCoverageScoreUncapped(cov) == RMul(cov, RInt(CoverageFactor))

globalRedCoverageScoreOf(cov) == RMin(RInt(1), RMul(cov, RInt(CoverageFactor)))

redCellCountOf(redCells) ==
    Len(SelectSeq(redCells, LAMBDA c : RLess(Rat(CellRedTenths, 10), c.redRatio)))

avgRedIntensityOf(redIntensities) ==
    IF Len(redIntensities) > 0
    THEN Rat(SumSeq(redIntensities), Len(redIntensities)) ELSE RInt(0)

redIntensityScoreOf(avg) == RMin(RInt(1), RMul(avg, Rat(1, FullIntensity)))

nonRedAreaScoreOf(nonRed) ==
    RMax(RInt(0), RSub(RInt(1), RMul(nonRed, RInt(NonRedFactor))))

killScoreOf(cs, us, is, ns) ==
    RAdd(RAdd(RAdd(RMul(cs, Rat(WeightCoverage, 10)),
                   RMul(us, Rat(WeightUniformity, 10))),
              RMul(is, Rat(WeightIntensity, 10))),
         RMul(ns, Rat(WeightNonRed, 10)))

\* the value detectGlobalRed returns, with the locals redCells and totalRedPixels
detectGlobalRed(f) ==
    LET totalPixels == f.width * f.height
        scan == GridScan(f)
        globalRedCoverage == Rat(scan.totalRedPixels, totalPixels)
        globalRedCoverageScore == globalRedCoverageScoreOf(globalRedCoverage)
        redCellCount == redCellCountOf(scan.redCells)
        redUniformity == Rat(redCellCount, gridSize * gridSize)
        redUniformityScore == redUniformity
        avgRedIntensity == avgRedIntensityOf(scan.redIntensities)
        redIntensityScore == redIntensityScoreOf(avgRedIntensity)
        nonRedArea == RSub(RInt(1), globalRedCoverage)
        nonRedAreaScore == nonRedAreaScoreOf(nonRedArea)
        killScore == killScoreOf(globalRedCoverageScore, redUniformityScore,
                                 redIntensityScore, nonRedAreaScore)
    IN  [isKillScreen |-> RLess(Rat(KillTenths, 10), killScore),
         killScore |-> killScore,
         details |-> [globalRedCoverage |-> globalRedCoverage,
                      globalRedCoverageScore |-> globalRedCoverageScore,
                      redUniformity |-> redUniformity,
                      redUniformityScore |-> redUniformityScore,
                      redIntensity |-> avgRedIntensity,
                      redIntensityScore |-> redIntensityScore,
                      nonRedArea |-> nonRedArea,
                      nonRedAreaScore |-> nonRedAreaScore],
         redCells |-> scan.redCells,
         cellTotals |-> scan.cellTotals,
         redCellCount |-> redCellCount,
         totalRedPixels |-> scan.totalRedPixels,
         redIntensityCount |-> Len(scan.redIntensities)]

\* ---- the frames drawn: a w x h image of colour c2 with the top-left
\* ---- a x b rectangle painted c1, decoded to 3 (RGB) or 4 (RGBA) channels
Palette ==
    { <<0, 0, 0>>,         \* black
      <<255, 0, 0>>,       \* pure red
      <<100, 0, 0>>,       \* red at the brightness floor: not dominant
      <<101, 100, 100>>,   \* barely dominant, margin 1
      <<200, 50, 150>>,    \* dominant, margin 50
      <<200, 200, 200>> }  \* grey: red does not exceed green

ChannelCounts == {3, 4}

MakeFrame(w, h, a, b, c1, c2, ch) ==
    [width |-> w, height |-> h, channels |-> ch,
     data |-> [i \in 1..(w * h * ch) |->
                 LET p == (i - 1) \div ch
                     k == (i - 1) % ch
                     x == p % w
                     y == p \div w
                     c == IF x < a /\ y < b THEN c1 ELSE c2
                 IN  IF k < 3 THEN c[k + 1] ELSE 255]]

IdleDedupIn == [killScreens |-> <<>>, mergeWindowSeconds |-> 0, minConsecutiveDetections |-> 0]
IdleProject == [none |-> TRUE]
IdleOptions == [none |-> TRUE]
IdleGen == [pc |-> "absent"]
IdlePlanIn == [none |-> TRUE]
IdlePlanOut == [byProcessor |-> NoResult, byGenerate |-> NoResult]
IdleVideo == [none |-> TRUE]
IdleDet == [pc |-> "idle"]

InitScore ==
    /\ \E w \in 1..MaxDim, h \in 1..MaxDim :
         \E a \in 1..w, b \in 1..h :
           \E c1 \in Palette, c2 \in Palette, ch \in ChannelCounts :
             frame = MakeFrame(w, h, a, b, c1, c2, ch)
    /\ scoreResult = NoResult
    /\ dedupIn = IdleDedupIn
    /\ dedupOut = NoResult
    /\ rerunOut = NoResult
    /\ project = IdleProject
    /\ options = IdleOptions
    /\ gen = IdleGen
    /\ planIn = IdlePlanIn
    /\ planOut = IdlePlanOut
    /\ analysisOut = NoResult
    /\ video = IdleVideo
    /\ det = IdleDet

\* detectGlobalRed(imagePath) runs on the decoded frame
ScoreFrame ==
    /\ scoreResult = NoResult
    /\ scoreResult' = detectGlobalRed(frame)
    /\ UNCHANGED <<frame, dedupIn, dedupOut, rerunOut, project, options, gen,
                   planIn, planOut, analysisOut, video, det>>

NextScore == ScoreFrame

SpecScore == InitScore /\ [][NextScore]_vars

\* ------------------------------------------------ FrameScorer: properties
Scored == scoreResult # NoResult

InUnit(q) == RLeq(RInt(0), q) /\ RLeq(q, RInt(1))

\* the frame's pixels, read straight from the buffer
FramePixels(f) == (0..(f.width - 1)) \X (0..(f.height - 1))

PixelAt(f, p) ==
    <<f.data[(p[2] * f.width + p[1]) * f.channels + 1],
      f.data[(p[2] * f.width + p[1]) * f.channels + 2],
      f.data[(p[2] * f.width + p[1]) * f.channels + 3]>>

AllPixels(f, c) == \A p \in FramePixels(f) : PixelAt(f, p) = c

Dominant(c) == c[1] > c[2] /\ c[1] > c[3] /\ c[1] > 100

\* number of dominant pixels of cell k, counted over the cell's rectangle
DominantInCell(f, k) ==
    Cardinality({ p \in FramePixels(f) :
        /\ p[1] >= CellStartX(f, GridOrder[k].gridX)
        /\ p[1] <  CellEndX(f, GridOrder[k].gridX)
        /\ p[2] >= CellStartY(f, GridOrder[k].gridY)
        /\ p[2] <  CellEndY(f, GridOrder[k].gridY)
        /\ Dominant(PixelAt(f, p)) })

\* C1: for every frame (width >= 1, height >= 1, any channel values) the
\* killScore returned by detectGlobalRed lies in [0,1], and so does each of
\* the four sub-scores (coverage, uniformity, intensity, inverse residual).
C1_ConfidenceInUnitInterval ==
    Scored =>
        /\ InUnit(scoreResult.killScore)
        /\ InUnit(scoreResult.details.globalRedCoverageScore)
        /\ InUnit(scoreResult.details.redUniformityScore)
        /\ InUnit(scoreResult.details.redIntensityScore)
        /\ InUnit(scoreResult.details.nonRedAreaScore)

\* a frame whose raw coverage * 2 exceeds 1 (the cap acts) and whose score
\* is strictly inside the interval
C1_Witness ==
    /\ Scored
    /\ RLess(Rat(1, 2), scoreResult.details.globalRedCoverage)
    /\ RLess(RInt(0), scoreResult.killScore)
    /\ RLess(scoreResult.killScore, RInt(1))

\* C2 (as claimed): for every frame size, a frame whose pixels are all
\* (255, 0, 0) yields coverage score 1, uniformity 1 and killScore 1.
C2_AllRedScoresOne ==
    (Scored /\ AllPixels(frame, <<255, 0, 0>>)) =>
        /\ scoreResult.details.globalRedCoverageScore = RInt(1)
        /\ scoreResult.details.redUniformityScore = RInt(1)
        /\ scoreResult.killScore = RInt(1)

\* C3: an all-zero buffer yields killScore exactly 0, and a grid cell without
\* dominant pixels has average intensity 0 and ratio 0 and is not counted as
\* a red cell (no undefined value is produced).
C3_AllZeroScoresZero ==
    Scored =>
        /\ AllPixels(frame, <<0, 0, 0>>) => scoreResult.killScore = RInt(0)
        /\ \A k \in 1..Len(GridOrder) :
              DominantInCell(frame, k) = 0 =>
                  /\ scoreResult.redCells[k].avgRedIntensity = RInt(0)
                  /\ scoreResult.redCells[k].redRatio = RInt(0)
        /\ scoreResult.redCellCount
              <= Cardinality({ k \in 1..Len(GridOrder) : DominantInCell(frame, k) > 0 })
        /\ (scoreResult.totalRedPixels = 0) => scoreResult.details.redIntensity = RInt(0)

\* an all-zero frame whose nine cells are all non-empty has been scored
C3_Witness ==
    /\ Scored
    /\ frame.width >= gridSize /\ frame.height >= gridSize
    /\ AllPixels(frame, <<0, 0, 0>>)
    /\ scoreResult.killScore = RInt(0)

\* C23 (as claimed): the InverseResidual sub-score (nonRedAreaScore) is
\* max(0, 1 - 3 * (1 - GlobalCoverage)) with GlobalCoverage =
\* min(1, 2 * totalDominantPixels / totalPixels) (globalRedCoverageScore),
\* and the confidence is 0.4 * GlobalCoverage + 0.3 * Uniformity
\* + 0.2 * Intensity + 0.1 * InverseResidual.
C23_InverseResidualFormula ==
    Scored =>
        LET d == scoreResult.details
            GlobalCoverage ==
                RMin(RInt(1), Rat(2 * scoreResult.totalRedPixels,
                                  frame.width * frame.height))
            InverseResidual ==
                RMax(RInt(0), RSub(RInt(1), RMul(RInt(3), RSub(RInt(1), GlobalCoverage))))
        IN  /\ d.globalRedCoverageScore = GlobalCoverage
            /\ d.nonRedAreaScore = InverseResidual
            /\ scoreResult.killScore =
                  RAdd(RAdd(RMul(Rat(4, 10), GlobalCoverage),
                            RMul(Rat(3, 10), d.redUniformityScore)),
                       RAdd(RMul(Rat(2, 10), d.redIntensityScore),
                            RMul(Rat(1, 10), InverseResidual)))

\* C25 (as claimed): the 3x3 grid partitions the frame: the nine cells'
\* pixel counts sum to width * height and totalRedPixels counts every
\* dominant pixel of the frame.
C25_GridPartitionsFrame ==
    Scored =>
        /\ SumSeq(scoreResult.cellTotals) = frame.width * frame.height
        /\ scoreResult.totalRedPixels
              = Cardinality({ p \in FramePixels(frame) : Dominant(PixelAt(frame, p)) })

\* ---- decoded images whose buffer length is not width * height * channels:
\* ---- a uniform frame of every size and colour drawn, its buffer one pixel
\* ---- short, one byte short or one byte long
Resized(data, n) ==
    IF n <= Len(data) THEN SubSeq(data, 1, n) ELSE data \o <<0>>

WellFormed(f) == Len(f.data) = f.width * f.height * f.channels

InitMalformed ==
    /\ \E w \in 1..MaxDim, h \in 1..MaxDim :
         \E c \in Palette, ch \in ChannelCounts :
           \E n \in {w * h * ch - ch, w * h * ch - 1, w * h * ch + 1} :
             frame = [MakeFrame(w, h, w, h, c, c, ch) EXCEPT
                          !.data = Resized(AsSeq(@), n)]
    /\ scoreResult = NoResult
    /\ dedupIn = IdleDedupIn
    /\ dedupOut = NoResult
    /\ rerunOut = NoResult
    /\ project = IdleProject
    /\ options = IdleOptions
    /\ gen = IdleGen
    /\ planIn = IdlePlanIn
    /\ planOut = IdlePlanOut
    /\ analysisOut = NoResult
    /\ video = IdleVideo
    /\ det = IdleDet

SpecMalformed == InitMalformed /\ [][NextScore]_vars

ConfOne == 100             \* confidence 1.0, in hundredths
FrameRate == 5             \* frames per second of the extracted frames
BonusPerDetection == 2     \* 0.02 per detection of the cluster
BonusCap == 10             \* the bonus is at most 0.1

Null == [null |-> TRUE]

\* [...killScreens].sort((a, b) => a.timeInSeconds - b.timeInSeconds):
\* Array.prototype.sort is stable, so equal times keep their input order
RECURSIVE InsertByTime(_, _)
InsertByTime(sorted, e) ==
    IF sorted = <<>> THEN <<e>>
    ELSE LET last == sorted[Len(sorted)]
         IN  IF last.timeInSeconds - e.timeInSeconds > 0
             THEN Append(InsertByTime(SubSeq(sorted, 1, Len(sorted) - 1), e), last)
             ELSE Append(sorted, e)

\* faulty variant: the list is taken in the order given
SortByTimeAsGiven(ks) == ks

RECURSIVE SortByTime(_)
SortByTime(ks) ==
    IF ks = <<>> THEN <<>>
    ELSE InsertByTime(SortByTime(SubSeq(ks, 1, Len(ks) - 1)), ks[Len(ks)])

\* faulty variant: a gap equal to the window already starts a new cluster
StartsNewClusterAtWindow(currentCluster, killScreen, mergeWindowSeconds) ==
    \/ currentCluster = Null
    \/ killScreen.timeInSeconds - currentCluster.endTime >= mergeWindowSeconds

\* faulty variant: the gap is measured from the cluster's start, not its end
StartsNewClusterFromStart(currentCluster, killScreen, mergeWindowSeconds) ==
    \/ currentCluster = Null
    \/ killScreen.timeInSeconds - currentCluster.startTime > mergeWindowSeconds

\* faulty variant: every sample starts a cluster of its own
StartsNewClusterEverySample(currentCluster, killScreen, mergeWindowSeconds) ==
    \/ currentCluster = Null
    \/ killScreen.timeInSeconds - currentCluster.endTime >= 0

\* the condition of the clustering loop
StartsNewCluster(currentCluster, killScreen, mergeWindowSeconds) ==
    \/ currentCluster = Null
    \/ killScreen.timeInSeconds - currentCluster.endTime > mergeWindowSeconds

NewCluster(killScreen) ==
    [startTime |-> killScreen.timeInSeconds,
     endTime |-> killScreen.timeInSeconds,
     detections |-> <<killScreen>>,
     averageConfidence |-> RInt(killScreen.confidence),
     peakConfidence |-> killScreen.confidence]

ExtendCluster(c, killScreen) ==
    LET dets == Append(c.detections, killScreen)
    IN  [startTime |-> c.startTime,
         endTime |-> killScreen.timeInSeconds,
         detections |-> dets,
         averageConfidence |->
             Rat(SumSeq(AsSeq([i \in 1..Len(dets) |-> dets[i].confidence])), Len(dets)),
         peakConfidence |-> Max(c.peakConfidence, killScreen.confidence)]

\* the for loop over sortedKillScreens, from position i on
RECURSIVE ClusterLoop(_, _, _, _, _)
ClusterLoop(sorted, i, clusters, currentCluster, window) ==
    IF i > Len(sorted)
    THEN IF currentCluster # Null THEN Append(clusters, currentCluster) ELSE clusters
    ELSE IF StartsNewCluster(currentCluster, sorted[i], window)
         THEN ClusterLoop(sorted, i + 1,
                          IF currentCluster # Null
                          THEN Append(clusters, currentCluster) ELSE clusters,
                          NewCluster(sorted[i]), window)
         ELSE ClusterLoop(sorted, i + 1, clusters,
                          ExtendCluster(currentCluster, sorted[i]), window)

BuildClusters(killScreens, window) ==
    ClusterLoop(SortByTime(killScreens), 1, <<>>, Null, window)

\* faulty variant: a cluster needs more than the minimum number of detections
KeepClusterStrict(cluster, minConsecutiveDetections) ==
    Len(cluster.detections) > minConsecutiveDetections

KeepCluster(cluster, minConsecutiveDetections) ==
    Len(cluster.detections) >= minConsecutiveDetections

\* faulty variant: a later detection of equal confidence replaces the best one
BetterOrEqual(current, best) == current.confidence >= best.confidence

\* the comparison of the representative's reduce
Better(current, best) == current.confidence > best.confidence

\* cluster.detections.reduce((best, current) => ...), without initial value
RECURSIVE ReduceBest(_, _, _)
ReduceBest(dets, i, best) ==
    IF i > Len(dets) THEN best
    ELSE ReduceBest(dets, i + 1, IF Better(dets[i], best) THEN dets[i] ELSE best)

Representative(cluster) == ReduceBest(cluster.detections, 2, cluster.detections[1])

\* faulty variant: the bonus without its cap
continuityBonusUncapped(n) == n * BonusPerDetection

continuityBonus(n) == Min(BonusCap, n * BonusPerDetection)

enhancedConfidence(representative, n) ==
    Min(ConfOne, representative.confidence + continuityBonus(n))

\* the record pushed for one surviving cluster
EmitRecord(cluster) ==
    LET representative == Representative(cluster)
    IN  [frameNumber |-> representative.frameNumber,
         timeInSeconds |-> representative.timeInSeconds,
         confidence |-> enhancedConfidence(representative, Len(cluster.detections))]

RECURSIVE FilterClusters(_, _)
FilterClusters(clusters, minConsecutiveDetections) ==
    IF clusters = <<>> THEN <<>>
    ELSE (IF KeepCluster(Head(clusters), minConsecutiveDetections)
          THEN <<EmitRecord(Head(clusters))>> ELSE <<>>)
         \o FilterClusters(Tail(clusters), minConsecutiveDetections)

deduplicateKillScreens(killScreens, mergeWindowSeconds, minConsecutiveDetections) ==
    IF Len(killScreens) = 0 THEN <<>>
    ELSE FilterClusters(BuildClusters(killScreens, mergeWindowSeconds),
                        minConsecutiveDetections)

\* ---- analyzeDetectionClusters(killScreens): the same loop with its own,
\* ---- literal window of 2 seconds (file.ts:134)
AnalysisWindowSeconds == 2

\* a duration in seconds, in ticks
Ticks(seconds) == seconds * FrameRate

\* faulty variant: a gap of exactly 2 seconds already starts a new cluster
AnalysisStartsNewClusterAtWindow(currentCluster, killScreen) ==
    \/ currentCluster = Null
    \/ killScreen.timeInSeconds - currentCluster.endTime >= Ticks(AnalysisWindowSeconds)

AnalysisStartsNewCluster(currentCluster, killScreen) ==
    \/ currentCluster = Null
    \/ killScreen.timeInSeconds - currentCluster.endTime > Ticks(AnalysisWindowSeconds)

RECURSIVE AnalysisLoop(_, _, _, _)
AnalysisLoop(sorted, i, clusters, currentCluster) ==
    IF i > Len(sorted)
    THEN IF currentCluster # Null THEN Append(clusters, currentCluster) ELSE clusters
    ELSE IF AnalysisStartsNewCluster(currentCluster, sorted[i])
         THEN AnalysisLoop(sorted, i + 1,
                           IF currentCluster # Null
                           THEN Append(clusters, currentCluster) ELSE clusters,
                           NewCluster(sorted[i]))
         ELSE AnalysisLoop(sorted, i + 1, clusters,
                           ExtendCluster(currentCluster, sorted[i]))

\* Math.max(...sizes) of a non-empty list
RECURSIVE MaxOfSeq(_)
MaxOfSeq(s) == IF Len(s) = 1 THEN s[1] ELSE Max(s[1], MaxOfSeq(Tail(s)))

\* the statistics returned for a non-empty list
ClusterStatistics(killScreens) ==
    LET clusters == AnalysisLoop(SortByTime(killScreens), 1, <<>>, Null)
        clusterSizes == AsSeq([i \in 1..Len(clusters) |-> Len(clusters[i].detections)])
    IN  [totalClusters |-> Len(clusters),
         averageClusterSize |-> Rat(SumSeq(clusterSizes), Len(clusters)),
         maxClusterSize |-> MaxOfSeq(clusterSizes),
         clusters |-> clusters]

\* 0 / 0 in JavaScript
NotANumber == [nan |-> TRUE]

\* faulty variant: no early return for the empty list; the mean is then
\* 0 / 0 = NaN and Math.max() of no arguments is -Infinity (written -1)
analyzeDetectionClustersUnguarded(killScreens) ==
    IF Len(killScreens) = 0
    THEN [totalClusters |-> 0, averageClusterSize |-> NotANumber,
          maxClusterSize |-> 0 - 1, clusters |-> <<>>]
    ELSE ClusterStatistics(killScreens)

analyzeDetectionClusters(killScreens) ==
    IF Len(killScreens) = 0
    THEN [totalClusters |-> 0, averageClusterSize |-> RInt(0),
          maxClusterSize |-> 0, clusters |-> <<>>]
    ELSE ClusterStatistics(killScreens)

\* ---- detectOnly's mapping of the final list to the records of the project
\* ---- file (detect-only.ts:113-120)
\* finalKillScreens.map((ks, index) => ({ id: index + 1, ..., enabled: true }));
\* the index of a TLA+ sequence is the JavaScript index plus one
DetectionEntries(finalKillScreens) ==
    AsSeq([index \in 1..Len(finalKillScreens) |->
              [id |-> index,
               frameNumber |-> finalKillScreens[index].frameNumber,
               timeInSeconds |-> finalKillScreens[index].timeInSeconds,
               confidence |-> finalKillScreens[index].confidence,
               enabled |-> TRUE,
               note |-> ""]])

\* ---- the sample lists drawn: at every tick 0..MaxTick no sample, one of
\* ---- confidence ConfLo or one of confidence ConfHi; optionally a second
\* ---- sample at the time of the last one; given in ascending, descending
\* ---- or rotated order
ConfLo == ConfOne - 20     \* 0.80
ConfHi == ConfOne - 5      \* 0.95

TickChoices == {"none", "lo", "hi"}
Orders == {"asc", "desc", "rot"}

RECURSIVE SamplesFrom(_, _)
SamplesFrom(pick, t) ==
    IF t > MaxTick THEN <<>>
    ELSE (IF pick[t] = "none" THEN <<>>
          ELSE <<[frameNumber |-> t, timeInSeconds |-> t,
                  confidence |-> IF pick[t] = "lo" THEN ConfLo ELSE ConfHi]>>)
         \o SamplesFrom(pick, t + 1)

WithDuplicate(ks, dup) ==
    IF dup /\ ks # <<>>
    THEN Append(ks, [frameNumber |-> ks[Len(ks)].frameNumber + MaxTick + 1,
                     timeInSeconds |-> ks[Len(ks)].timeInSeconds,
                     confidence |-> ConfHi])
    ELSE ks

Reverse(s) == AsSeq([i \in 1..Len(s) |-> s[Len(s) + 1 - i]])

Ordered(ks, order) ==
    IF ks = <<>> THEN ks
    ELSE IF order = "desc" THEN Reverse(ks)
    ELSE IF order = "rot" THEN Append(Tail(ks), Head(ks))
    ELSE ks

InitCluster ==
    /\ \E pick \in [0..MaxTick -> TickChoices], dup \in BOOLEAN, order \in Orders :
         \E w \in 1..MaxWindow, m \in 1..MaxMinSize :
           dedupIn = [killScreens |-> Ordered(WithDuplicate(SamplesFrom(pick, 0), dup), order),
                      mergeWindowSeconds |-> w,
                      minConsecutiveDetections |-> m]
    /\ dedupOut = NoResult
    /\ rerunOut = NoResult
    /\ frame = [none |-> TRUE]
    /\ scoreResult = NoResult
    /\ project = IdleProject
    /\ options = IdleOptions
    /\ gen = IdleGen
    /\ planIn = IdlePlanIn
    /\ planOut = IdlePlanOut
    /\ analysisOut = NoResult
    /\ video = IdleVideo
    /\ det = IdleDet

\* faulty variant: the caller's array itself is sorted, not a copy of it
DeduplicateSortingInPlace ==
    /\ dedupOut = NoResult
    /\ dedupOut' =
         [clusters |-> IF Len(dedupIn.killScreens) = 0 THEN <<>>
                       ELSE BuildClusters(dedupIn.killScreens, dedupIn.mergeWindowSeconds),
          filteredKillScreens |->
              deduplicateKillScreens(dedupIn.killScreens, dedupIn.mergeWindowSeconds,
                                     dedupIn.minConsecutiveDetections)]
    /\ dedupIn' = [dedupIn EXCEPT !.killScreens = SortByTime(dedupIn.killScreens)]
    /\ UNCHANGED <<frame, scoreResult, rerunOut, project, options, gen,
                   planIn, planOut, analysisOut, video, det>>

\* deduplicateKillScreens(killScreens, mergeWindowSeconds, minConsecutiveDetections)
Deduplicate ==
    /\ dedupOut = NoResult
    /\ dedupOut' =
         [clusters |-> IF Len(dedupIn.killScreens) = 0 THEN <<>>
                       ELSE BuildClusters(dedupIn.killScreens, dedupIn.mergeWindowSeconds),
          filteredKillScreens |->
              deduplicateKillScreens(dedupIn.killScreens, dedupIn.mergeWindowSeconds,
                                     dedupIn.minConsecutiveDetections)]
    /\ UNCHANGED <<frame, scoreResult, dedupIn, rerunOut, project, options, gen,
                   planIn, planOut, analysisOut, video, det>>

\* deduplicateKillScreens applied to its own output, keeping single samples
Rerun ==
    /\ dedupOut # NoResult
    /\ rerunOut = NoResult
    /\ rerunOut' =
         [filteredKillScreens |->
              deduplicateKillScreens(dedupOut.filteredKillScreens,
                                     dedupIn.mergeWindowSeconds, 1)]
    /\ UNCHANGED <<frame, scoreResult, dedupIn, dedupOut, project, options, gen,
                   planIn, planOut, analysisOut, video, det>>

NextCluster == Deduplicate \/ Rerun

SpecCluster == InitCluster /\ [][NextCluster]_vars

\* ---- the three functions detectOnly applies to its raw list, applied to
\* ---- the drawn list: analyzeDetectionClusters (detect-only.ts:75),
\* ---- deduplicateKillScreens (l.82) and the mapping to records (l.113-120)
Analyze ==
    /\ analysisOut = NoResult
    /\ analysisOut' = analyzeDetectionClusters(dedupIn.killScreens)
    /\ UNCHANGED <<frame, scoreResult, dedupIn, dedupOut, rerunOut, project, options, gen,
                   planIn, planOut, video, det>>

ToDetections ==
    /\ dedupOut # NoResult
    /\ analysisOut # NoResult
    /\ project = IdleProject
    /\ project' = [detections |-> DetectionEntries(dedupOut.filteredKillScreens)]
    /\ UNCHANGED <<frame, scoreResult, dedupIn, dedupOut, rerunOut, options, gen,
                   planIn, planOut, analysisOut, video, det>>

NextRecords == Analyze \/ Deduplicate \/ ToDetections

SpecRecords == InitCluster /\ [][NextRecords]_vars

\* --------------------------------------------- EventClusterer: properties
Deduped == dedupOut # NoResult

Range(s) == { s[i] : i \in 1..Len(s) }

Count(s, e) == Cardinality({ i \in 1..Len(s) : s[i] = e })

SameBag(s, t) ==
    /\ Len(s) = Len(t)
    /\ \A e \in Range(s) \cup Range(t) : Count(s, e) = Count(t, e)

AllDetections(clusters) ==
    Concat(AsSeq([i \in 1..Len(clusters) |-> clusters[i].detections]))

Size(c) == Len(c.detections)

MaxConfidence(c) ==
    CHOOSE m \in { d.confidence : d \in Range(c.detections) } :
        \A d \in Range(c.detections) : d.confidence <= m

Survives(c) == Size(c) >= dedupIn.minConsecutiveDetections

\* the position in dedupOut.clusters of the k-th cluster that is large enough
SurvivorIndex(k) ==
    CHOOSE i \in 1..Len(dedupOut.clusters) :
        /\ Survives(dedupOut.clusters[i])
        /\ Cardinality({ j \in 1..i : Survives(dedupOut.clusters[j]) }) = k

NumSurvivors ==
    Cardinality({ i \in 1..Len(dedupOut.clusters) : Survives(dedupOut.clusters[i]) })

\* C4: two samples adjacent in time order are in the same cluster iff their
\* gap is <= mergeWindowSeconds: every cluster is non-empty and time-sorted
\* with consecutive gaps <= the window, consecutive clusters are separated by
\* more than the window (so they are time-ordered and do not overlap), and
\* the clusters together hold every input sample exactly once.
C4_GreedyPartition ==
    Deduped =>
        LET cl == dedupOut.clusters
            w  == dedupIn.mergeWindowSeconds
        IN  /\ SameBag(AllDetections(cl), dedupIn.killScreens)
            /\ \A c \in 1..Len(cl) :
                  /\ Size(cl[c]) >= 1
                  /\ cl[c].startTime = cl[c].detections[1].timeInSeconds
                  /\ cl[c].endTime = cl[c].detections[Size(cl[c])].timeInSeconds
                  /\ \A j \in 1..(Size(cl[c]) - 1) :
                        LET gap == cl[c].detections[j + 1].timeInSeconds
                                     - cl[c].detections[j].timeInSeconds
                        IN  gap >= 0 /\ gap <= w
            /\ \A c \in 1..(Len(cl) - 1) :
                  cl[c + 1].detections[1].timeInSeconds
                     - cl[c].detections[Size(cl[c])].timeInSeconds > w

\* unsorted input, a cluster holding a gap equal to the window, and a next
\* cluster that starts one tick beyond the window
C4_Witness ==
    /\ Deduped
    /\ dedupIn.killScreens # SortByTime(dedupIn.killScreens)
    /\ \E c \in 1..(Len(dedupOut.clusters) - 1) :
          LET a == dedupOut.clusters[c]
              b == dedupOut.clusters[c + 1]
          IN  /\ b.startTime - a.endTime = dedupIn.mergeWindowSeconds + 1
              /\ \E j \in 1..(Size(a) - 1) :
                    a.detections[j + 1].timeInSeconds - a.detections[j].timeInSeconds
                       = dedupIn.mergeWindowSeconds

\* C5: exactly one record is emitted for each cluster with at least
\* minConsecutiveDetections samples, in cluster order, and none for a
\* smaller cluster.
C5_MinClusterSizeFilter ==
    Deduped =>
        /\ Len(dedupOut.filteredKillScreens) = NumSurvivors
        /\ \A k \in 1..Len(dedupOut.filteredKillScreens) :
              \E d \in Range(dedupOut.clusters[SurvivorIndex(k)].detections) :
                  /\ d.frameNumber = dedupOut.filteredKillScreens[k].frameNumber
                  /\ d.timeInSeconds = dedupOut.filteredKillScreens[k].timeInSeconds

\* with a minimum of 2, a single-sample cluster was dropped next to a
\* larger one that was kept
C5_Witness ==
    /\ Deduped
    /\ dedupIn.minConsecutiveDetections = 2
    /\ \E i \in 1..Len(dedupOut.clusters) : Size(dedupOut.clusters[i]) = 1
    /\ \E i \in 1..Len(dedupOut.clusters) : Size(dedupOut.clusters[i]) >= 2
    /\ Len(dedupOut.filteredKillScreens) >= 1
    /\ Len(dedupOut.filteredKillScreens) < Len(dedupOut.clusters)

\* C6: the record of a surviving cluster carries the timestamp and frame
\* number of a sample of maximum confidence, and no sample of that
\* confidence in the cluster is earlier.
C6_RepresentativeIsEarliestMax ==
    Deduped =>
        \A k \in 1..Len(dedupOut.filteredKillScreens) :
            LET c   == dedupOut.clusters[SurvivorIndex(k)]
                out == dedupOut.filteredKillScreens[k]
            IN  \E d \in Range(c.detections) :
                    /\ d.frameNumber = out.frameNumber
                    /\ d.timeInSeconds = out.timeInSeconds
                    /\ d.confidence = MaxConfidence(c)
                    /\ \A e \in Range(c.detections) :
                          e.confidence = MaxConfidence(c)
                              => d.timeInSeconds <= e.timeInSeconds

\* a surviving cluster whose maximum is reached twice, at different times,
\* and not by its first sample
C6_Witness ==
    /\ Deduped
    /\ \E k \in 1..Len(dedupOut.filteredKillScreens) :
          LET c == dedupOut.clusters[SurvivorIndex(k)]
          IN  /\ c.detections[1].confidence < MaxConfidence(c)
              /\ \E d, e \in Range(c.detections) :
                    /\ d.confidence = MaxConfidence(c)
                    /\ e.confidence = MaxConfidence(c)
                    /\ d.timeInSeconds < e.timeInSeconds

\* the bonus a record shows over its cluster's best sample
ShownBonus(k) ==
    dedupOut.filteredKillScreens[k].confidence
       - MaxConfidence(dedupOut.clusters[SurvivorIndex(k)])

\* C7: an emitted confidence is min(1, best + min(0.1, size * 0.02)); the
\* bonus does not decrease with the cluster size, is at most 0.1, and the
\* emitted confidence stays within [0, 1].
C7_ContinuityBonus ==
    Deduped =>
        /\ \A k \in 1..Len(dedupOut.filteredKillScreens) :
              LET c     == dedupOut.clusters[SurvivorIndex(k)]
                  out   == dedupOut.filteredKillScreens[k]
                  bonus == IF Size(c) * 2 < 10 THEN Size(c) * 2 ELSE 10
                  plain == MaxConfidence(c) + bonus
              IN  /\ out.confidence = (IF plain < 100 THEN plain ELSE 100)
                  /\ out.confidence >= 0 /\ out.confidence <= 100
                  /\ ShownBonus(k) <= 10
        /\ \A k, l \in 1..Len(dedupOut.filteredKillScreens) :
              LET c == dedupOut.clusters[SurvivorIndex(k)]
                  e == dedupOut.clusters[SurvivorIndex(l)]
              IN  (Size(c) <= Size(e) /\ MaxConfidence(c) = ConfLo /\ MaxConfidence(e) = ConfLo)
                      => ShownBonus(k) <= ShownBonus(l)

\* a cluster of more than five samples (the bonus cap acts) whose best
\* sample plus bonus exceeds 1 (the cap at 1 acts)
C7_Witness ==
    /\ Deduped
    /\ \E k \in 1..Len(dedupOut.filteredKillScreens) :
          LET c == dedupOut.clusters[SurvivorIndex(k)]
          IN  /\ Size(c) > 5
              /\ MaxConfidence(c) + 10 > 100
              /\ dedupOut.filteredKillScreens[k].confidence = 100

\* C10: deduplicating the output again with the same window and a minimum
\* size of 1 merges nothing: it returns one record per record, with the
\* same timestamps and frame numbers.
C10_RerunMergesNothing ==
    (Deduped /\ rerunOut # NoResult) =>
        /\ Len(rerunOut.filteredKillScreens) = Len(dedupOut.filteredKillScreens)
        /\ \A k \in 1..Len(dedupOut.filteredKillScreens) :
              /\ rerunOut.filteredKillScreens[k].timeInSeconds
                    = dedupOut.filteredKillScreens[k].timeInSeconds
              /\ rerunOut.filteredKillScreens[k].frameNumber
                    = dedupOut.filteredKillScreens[k].frameNumber

\* the second pass ran on at least two records, two of them as close as
\* two representatives can be
C10_Witness ==
    /\ Deduped
    /\ rerunOut # NoResult
    /\ Len(rerunOut.filteredKillScreens) >= 2
    /\ \E k \in 1..(Len(dedupOut.filteredKillScreens) - 1) :
          dedupOut.filteredKillScreens[k + 1].timeInSeconds
             - dedupOut.filteredKillScreens[k].timeInSeconds
                = dedupIn.mergeWindowSeconds + 1

\* C27: in the output of deduplicateKillScreens, for any input and any
\* minimum cluster size, the timestamps are strictly increasing and two
\* consecutive records are separated by strictly more than
\* mergeWindowSeconds.
C27_OutputSeparatedByWindow ==
    Deduped =>
        \A k \in 1..(Len(dedupOut.filteredKillScreens) - 1) :
            LET a == dedupOut.filteredKillScreens[k]
                b == dedupOut.filteredKillScreens[k + 1]
            IN  /\ a.timeInSeconds < b.timeInSeconds
                /\ b.timeInSeconds - a.timeInSeconds > dedupIn.mergeWindowSeconds

\* an unsorted input with two samples at one time, a minimum size of 2, and
\* two consecutive records as close as the window allows
C27_Witness ==
    /\ Deduped
    /\ dedupIn.minConsecutiveDetections = 2
    /\ dedupIn.killScreens # SortByTime(dedupIn.killScreens)
    /\ \E i, j \in 1..Len(dedupIn.killScreens) :
          i # j /\ dedupIn.killScreens[i].timeInSeconds = dedupIn.killScreens[j].timeInSeconds
    /\ \E k \in 1..(Len(dedupOut.filteredKillScreens) - 1) :
          dedupOut.filteredKillScreens[k + 1].timeInSeconds
             - dedupOut.filteredKillScreens[k].timeInSeconds
                = dedupIn.mergeWindowSeconds + 1
    /\ Len(dedupOut.filteredKillScreens) < Len(dedupOut.clusters)

MaxPermuted == 3   \* longest list of which every permutation is tried

DistinctTimes(ks) ==
    \A i, j \in 1..Len(ks) : i # j => ks[i].timeInSeconds # ks[j].timeInSeconds

Permuted(ks, p) == AsSeq([i \in 1..Len(ks) |-> ks[p[i]]])

\* ks with the elements at positions i and i + 1 exchanged
Exchanged(ks, i) ==
    AsSeq([k \in 1..Len(ks) |-> IF k = i THEN ks[i + 1] ELSE IF k = i + 1 THEN ks[i] ELSE ks[k]])

\* the rearrangements of ks tried: every permutation of a list of at most
\* MaxPermuted samples; of a longer list every exchange of two neighbours,
\* the reversed list and the sorted list
Rearrangements(ks) ==
    IF Len(ks) <= MaxPermuted
    THEN { Permuted(ks, p) : p \in Permutations(1..Len(ks)) }
    ELSE { Exchanged(ks, i) : i \in 1..(Len(ks) - 1) } \cup {Reverse(ks), SortByTime(ks)}

\* C28: deduplicateKillScreens is order-insensitive and pure: when the
\* timestamps of the input are pairwise distinct every permutation of the
\* input yields the same output list, and neither deduplicateKillScreens
\* nor analyzeDetectionClusters changes the caller's array or its samples.
C28_OrderInsensitiveAndPure ==
    [][ /\ dedupIn' = dedupIn
        /\ (dedupOut = NoResult /\ dedupOut' # NoResult /\ DistinctTimes(dedupIn.killScreens)) =>
              \A ks \in Rearrangements(dedupIn.killScreens) :
                  deduplicateKillScreens(ks, dedupIn.mergeWindowSeconds,
                                         dedupIn.minConsecutiveDetections)
                     = dedupOut'.filteredKillScreens ]_vars

\* both functions ran on an unsorted list of at least three samples at
\* distinct times, of whose two clusters one survived
C28_Witness ==
    /\ Deduped
    /\ analysisOut # NoResult
    /\ DistinctTimes(dedupIn.killScreens)
    /\ Len(dedupIn.killScreens) >= 3
    /\ Len(dedupIn.killScreens) <= MaxPermuted
    /\ dedupIn.killScreens # SortByTime(dedupIn.killScreens)
    /\ dedupIn.minConsecutiveDetections = 2
    /\ Len(dedupOut.filteredKillScreens) = 1
    /\ Len(dedupOut.clusters) = 2

\* ========================================================= SegmentPlanner
\* src/src/types/index.ts (VideoProcessor), src/unnamed/part_003 (generateVideo)

\* faulty variant: the start is not clamped at 0
createVideoSegmentsUnclamped(timestamps, beforeSeconds, afterSeconds) ==
    AsSeq([i \in 1..Len(timestamps) |->
        [startTime |-> timestamps[i].timeInSeconds - beforeSeconds,
         endTime |-> timestamps[i].timeInSeconds + afterSeconds,
         duration |-> beforeSeconds + afterSeconds]])

\* faulty variant: the duration is that of the clamped interval
createVideoSegmentsExactDuration(timestamps, beforeSeconds, afterSeconds) ==
    AsSeq([i \in 1..Len(timestamps) |->
        [startTime |-> Max(0, timestamps[i].timeInSeconds - beforeSeconds),
         endTime |-> timestamps[i].timeInSeconds + afterSeconds,
         duration |-> timestamps[i].timeInSeconds + afterSeconds
                         - Max(0, timestamps[i].timeInSeconds - beforeSeconds)]])

\* VideoProcessor.createVideoSegments
createVideoSegments(timestamps, beforeSeconds, afterSeconds) ==
    AsSeq([i \in 1..Len(timestamps) |->
        [startTime |-> Max(0, timestamps[i].timeInSeconds - beforeSeconds),
         endTime |-> timestamps[i].timeInSeconds + afterSeconds,
         duration |-> beforeSeconds + afterSeconds]])

\* the time NaN: what arithmetic on a missing (undefined) timeInSeconds gives
NaNSeconds == Undefined - 1

\* the mapping of enabledDetections to VideoSegment inside generateVideo;
\* undefined - n and undefined + n are NaN, and so is Math.max(0, NaN)
SegmentOfDetection(detection, beforeSeconds, afterSeconds) ==
    [startTime |-> IF detection.timeInSeconds = Undefined THEN NaNSeconds
                   ELSE Max(0, detection.timeInSeconds - beforeSeconds),
     endTime |-> IF detection.timeInSeconds = Undefined THEN NaNSeconds
                 ELSE detection.timeInSeconds + afterSeconds,
     duration |-> beforeSeconds + afterSeconds]

\* faulty variant: the records are clustered again before planning
GenerateSegmentsClustered(enabledDetections, beforeSeconds, afterSeconds) ==
    LET merged == deduplicateKillScreens(enabledDetections, AnalysisWindowSeconds, 1)
    IN  AsSeq([i \in 1..Len(merged) |->
            SegmentOfDetection(merged[i], beforeSeconds, afterSeconds)])

GenerateSegments(enabledDetections, beforeSeconds, afterSeconds) ==
    AsSeq([i \in 1..Len(enabledDetections) |->
        SegmentOfDetection(enabledDetections[i], beforeSeconds, afterSeconds)])

\* the interval of the source the slicer asks ffmpeg for:
\* seekInput(segment.startTime).duration(segment.duration)
CutInterval(segment) ==
    [from |-> segment.startTime, to |-> segment.startTime + segment.duration]

\* ---- the planner's inputs: up to two events at 0..MaxPlanTime and a lead
\* ---- and a trail in 0..MaxLead
PlanEvent(t) == [frameNumber |-> t * FrameRate, timeInSeconds |-> t, confidence |-> ConfHi]

InitPlan ==
    /\ \E n \in 1..2 :
         \E ts \in [1..n -> 0..MaxPlanTime], b \in 0..MaxLead, a \in 0..MaxLead :
           planIn = [timestamps |-> AsSeq([i \in 1..n |-> PlanEvent(ts[i])]),
                     beforeSeconds |-> b,
                     afterSeconds |-> a]
    /\ planOut = IdlePlanOut
    /\ analysisOut = NoResult
    /\ video = IdleVideo
    /\ det = IdleDet
    /\ frame = [none |-> TRUE]
    /\ scoreResult = NoResult
    /\ dedupIn = IdleDedupIn
    /\ dedupOut = NoResult
    /\ rerunOut = NoResult
    /\ project = IdleProject
    /\ options = IdleOptions
    /\ gen = IdleGen

\* processVideo plans with VideoProcessor.createVideoSegments
PlanByProcessor ==
    /\ planOut.byProcessor = NoResult
    /\ planOut' = [planOut EXCEPT !.byProcessor =
                      [segments |-> createVideoSegments(planIn.timestamps,
                                        planIn.beforeSeconds, planIn.afterSeconds)]]
    /\ UNCHANGED <<frame, scoreResult, dedupIn, dedupOut, rerunOut, project, options,
                   gen, planIn, analysisOut, video, det>>

\* generateVideo plans with its own mapping
PlanByGenerate ==
    /\ planOut.byGenerate = NoResult
    /\ planOut' = [planOut EXCEPT !.byGenerate =
                      [segments |-> GenerateSegments(planIn.timestamps,
                                        planIn.beforeSeconds, planIn.afterSeconds)]]
    /\ UNCHANGED <<frame, scoreResult, dedupIn, dedupOut, rerunOut, project, options,
                   gen, planIn, analysisOut, video, det>>

NextPlan == PlanByProcessor \/ PlanByGenerate

SpecPlan == InitPlan /\ [][NextPlan]_vars

\* ------------------------------------------- SegmentPlanner: properties
\* the segment the contract asks for
ContractSegment(t, lead, trail) ==
    [startTime |-> IF t - lead < 0 THEN 0 ELSE t - lead,
     endTime |-> t + trail,
     duration |-> lead + trail]

MeetsContract(out) ==
    /\ Len(out.segments) = Len(planIn.timestamps)
    /\ \A i \in 1..Len(out.segments) :
          /\ out.segments[i] = ContractSegment(planIn.timestamps[i].timeInSeconds,
                                               planIn.beforeSeconds, planIn.afterSeconds)
          /\ out.segments[i].startTime >= 0

\* C8: for t >= 0 and non-negative lead and trail both planners return
\* startTime = max(0, t - lead), endTime = t + trail, duration = lead + trail,
\* and VideoProcessor.createVideoSegments and the mapping in generateVideo
\* return the same segments for the same inputs.
C8_SegmentPlanning ==
    /\ planOut.byProcessor # NoResult => MeetsContract(planOut.byProcessor)
    /\ planOut.byGenerate # NoResult => MeetsContract(planOut.byGenerate)
    /\ (planOut.byProcessor # NoResult /\ planOut.byGenerate # NoResult)
          => planOut.byProcessor = planOut.byGenerate

\* both planners ran on t = 1, lead = 3, trail = 2 and gave 0, 3, 5
C8_Witness ==
    /\ planOut.byProcessor # NoResult
    /\ planOut.byGenerate # NoResult
    /\ planIn.timestamps[1].timeInSeconds = 1
    /\ planIn.beforeSeconds = 3
    /\ planIn.afterSeconds = 2
    /\ planOut.byGenerate.segments[1] = [startTime |-> 0, endTime |-> 3, duration |-> 5]
    /\ planOut.byProcessor.segments[1] = [startTime |-> 0, endTime |-> 3, duration |-> 5]

SegmentsObeyDuration(out) ==
    \A i \in 1..Len(out.segments) :
        LET seg == out.segments[i]
            t == planIn.timestamps[i].timeInSeconds
            lead == planIn.beforeSeconds
            trail == planIn.afterSeconds
        IN  /\ seg.endTime - seg.startTime <= seg.duration
            /\ (seg.endTime - seg.startTime = seg.duration) <=> (t >= lead)
            /\ t < lead => /\ CutInterval(seg) = [from |-> 0, to |-> lead + trail]
                           /\ CutInterval(seg).to > seg.endTime

\* C29: for every planned segment with timestamp >= 0 and non-negative lead
\* and trail, endTime - startTime <= duration, with equality exactly when
\* timestamp >= lead; when the start is clamped to 0 the slicer, given
\* startTime and duration, cuts [0, lead + trail], which extends past the
\* segment's endTime.
C29_DurationCoversSegment ==
    /\ planOut.byProcessor # NoResult => SegmentsObeyDuration(planOut.byProcessor)
    /\ planOut.byGenerate # NoResult => SegmentsObeyDuration(planOut.byGenerate)

\* both planners ran on an event before the lead (t = 1, lead = 3) and one
\* after it (t = 4), with a trail of 2
C29_Witness ==
    /\ planOut.byProcessor # NoResult
    /\ planOut.byGenerate # NoResult
    /\ planIn.beforeSeconds = 3
    /\ planIn.afterSeconds = 2
    /\ Len(planIn.timestamps) = 2
    /\ planIn.timestamps[1].timeInSeconds = 1
    /\ planIn.timestamps[2].timeInSeconds = 4
    /\ CutInterval(planOut.byProcessor.segments[1]) = [from |-> 0, to |-> 5]
    /\ planOut.byProcessor.segments[1].endTime = 3
    /\ CutInterval(planOut.byProcessor.segments[2]) = [from |-> 1, to |-> 6]

\* ============================================================ generateVideo
\* src/unnamed/part_003, src/src/types/index.ts (extractAndConcatenateSegments)

DefaultBefore == 3         \* --before default written to processingOptions
DefaultAfter == 2          \* --after default written to processingOptions

NoOption == [absent |-> TRUE]

\* options.before ? parseFloat(options.before) : project.processingOptions.beforeSeconds
EffectiveBefore(opts, proj) ==
    IF opts.before # NoOption THEN opts.before.value
    ELSE proj.processingOptions.beforeSeconds

EffectiveAfter(opts, proj) ==
    IF opts.after # NoOption THEN opts.after.value
    ELSE proj.processingOptions.afterSeconds

\* faulty variant: disabled records are not filtered out
AllDetectionsEnabled(detections) == detections

\* project.detections.filter(d => d.enabled)
EnabledDetections(detections) == SelectSeq(detections, LAMBDA d : d.enabled)

\* ---- the project files drawn: at every second 0..MaxTime no record, an
\* ---- enabled one or a disabled one, listed in ascending or descending
\* ---- order, ids numbered in ascending time order
RecordChoices == {"none", "on", "off"}

RECURSIVE RecordsFrom(_, _, _)
RecordsFrom(pick, t, nextId) ==
    IF t > MaxTime THEN <<>>
    ELSE IF pick[t] = "none" THEN RecordsFrom(pick, t + 1, nextId)
    ELSE <<[id |-> nextId, timeInSeconds |-> t, frameNumber |-> t * FrameRate,
            confidence |-> ConfHi, enabled |-> (pick[t] = "on")]>>
         \o RecordsFrom(pick, t + 1, nextId + 1)

OverrideChoices == {NoOption} \cup { [value |-> v] : v \in 0..MaxOverride }

\* ---- the file is unreadable or not JSON (readable = FALSE), or it parses
\* ---- and is complete, lacks the detections list, or holds records
\* ---- without timeInSeconds
FileShapes == {"unreadable", "complete", "no_detections", "no_timestamps"}

WithoutTimestamps(detections) ==
    AsSeq([i \in 1..Len(detections) |->
              [detections[i] EXCEPT !.timeInSeconds = Undefined]])

InitGenerate ==
    /\ \E pick \in [0..MaxTime -> RecordChoices], order \in {"asc", "desc"},
          shape \in FileShapes :
         project = [readable |-> shape # "unreadable",
                    hasDetections |-> shape # "no_detections",
                    processingOptions |-> [beforeSeconds |-> DefaultBefore,
                                           afterSeconds |-> DefaultAfter],
                    detections |->
                        IF shape = "no_detections" THEN <<>>
                        ELSE IF shape = "no_timestamps"
                        THEN WithoutTimestamps(Ordered(RecordsFrom(pick, 0, 1), order))
                        ELSE Ordered(RecordsFrom(pick, 0, 1), order)]
    /\ \E b \in OverrideChoices, a \in OverrideChoices, preview \in BOOLEAN :
         options = [before |-> b, after |-> a, preview |-> preview]
    /\ gen = [pc |-> "idle", run |-> 1, segments |-> <<>>, handed |-> FALSE,
              i |-> 0, segmentPaths |-> <<>>, tempDir |-> FALSE, output |-> NoResult,
              error |-> FALSE, message |-> "", prevSegments |-> <<>>, removed |-> 0]
    /\ planIn = IdlePlanIn
    /\ planOut = IdlePlanOut
    /\ analysisOut = NoResult
    /\ video = IdleVideo
    /\ det = IdleDet
    /\ frame = [none |-> TRUE]
    /\ scoreResult = NoResult
    /\ dedupIn = IdleDedupIn
    /\ dedupOut = NoResult
    /\ rerunOut = NoResult

GenUnchanged ==
    UNCHANGED <<frame, scoreResult, dedupIn, dedupOut, rerunOut, planIn, planOut,
                analysisOut, video, det>>

\* the parsed object can be used: project.detections.length (l.44) throws
\* a TypeError when the list is missing
Usable(proj) == proj.readable /\ proj.hasDetections

\* fs.readFile + JSON.parse and the summary printed from the parsed object:
\* a failure is thrown before the try block
ReadProject ==
    /\ gen.pc = "idle"
    /\ gen' = [gen EXCEPT !.pc = IF Usable(project) THEN "loaded" ELSE "failed",
                          !.error = ~Usable(project),
                          !.message = IF Usable(project) THEN "" ELSE "read or parse error"]
    /\ UNCHANGED <<project, options>>
    /\ GenUnchanged

\* from the filter of enabled records to the call of the slicer
PlanSegments ==
    /\ gen.pc = "loaded"
    /\ LET enabledDetections == EnabledDetections(project.detections)
           beforeSeconds == EffectiveBefore(options, project)
           afterSeconds == EffectiveAfter(options, project)
       IN  IF Len(enabledDetections) = 0 \/ options.preview
           THEN gen' = [gen EXCEPT !.pc = "returned"]
           ELSE gen' = [gen EXCEPT !.pc = "slicing",
                                   !.segments = GenerateSegments(enabledDetections,
                                                    beforeSeconds, afterSeconds),
                                   !.handed = TRUE,
                                   !.i = 0,
                                   !.segmentPaths = <<>>,
                                   !.tempDir = TRUE]
    /\ UNCHANGED <<project, options>>
    /\ GenUnchanged

\* one iteration of the slicing loop: ffmpeg ends and the path is recorded
SliceSegment ==
    /\ gen.pc = "slicing"
    /\ gen.i < Len(gen.segments)
    /\ gen' = [gen EXCEPT !.i = gen.i + 1,
                          !.segmentPaths = Append(gen.segmentPaths,
                              [index |-> gen.i,
                               seek |-> gen.segments[gen.i + 1].startTime,
                               duration |-> gen.segments[gen.i + 1].duration])]
    /\ UNCHANGED <<project, options>>
    /\ GenUnchanged

\* faulty variant: a segment whose slice fails is left out and the loop goes on
SliceErrorSkipsSegment ==
    /\ gen.pc = "slicing"
    /\ gen.i < Len(gen.segments)
    /\ gen' = [gen EXCEPT !.i = gen.i + 1]
    /\ UNCHANGED <<project, options>>
    /\ GenUnchanged

\* one iteration of the slicing loop: ffmpeg reports an error
SliceError ==
    /\ gen.pc = "slicing"
    /\ gen.i < Len(gen.segments)
    /\ gen' = [gen EXCEPT !.pc = "cleanup", !.error = TRUE, !.message = "ffmpeg error"]
    /\ UNCHANGED <<project, options>>
    /\ GenUnchanged

\* after the loop: no segment throws, one is copied, several are concatenated
WriteOutput ==
    /\ gen.pc = "slicing"
    /\ gen.i = Len(gen.segments)
    /\ \E ok \in BOOLEAN :
         gen' = IF Len(gen.segmentPaths) = 0
                THEN [gen EXCEPT !.pc = "cleanup", !.error = TRUE,
                                 !.message = "No segments to concatenate"]
                ELSE IF ~ok
                THEN [gen EXCEPT !.pc = "cleanup", !.error = TRUE,
                                 !.message = "copy or concat error"]
                ELSE [gen EXCEPT !.pc = "cleanup",
                                 !.output = [how |-> IF Len(gen.segmentPaths) = 1
                                                     THEN "copy" ELSE "concat",
                                             parts |-> gen.segmentPaths]]
    /\ UNCHANGED <<project, options>>
    /\ GenUnchanged

\* finally { await videoProcessor.cleanup() }
Cleanup ==
    /\ gen.pc = "cleanup"
    /\ gen' = [gen EXCEPT !.pc = IF gen.error THEN "failed" ELSE "done",
                          !.tempDir = FALSE]
    /\ UNCHANGED <<project, options>>
    /\ GenUnchanged

RankAmongEnabled(detections, j) ==
    Cardinality({ k \in 1..j : detections[k].enabled })

\* between two runs the operator sets enabled to false on one record of the
\* project file and generates again
DisableRecord ==
    /\ gen.pc = "done"
    /\ gen.run = 1
    /\ \E j \in 1..Len(project.detections) :
         /\ project.detections[j].enabled
         /\ project' = [project EXCEPT !.detections[j].enabled = FALSE]
         /\ gen' = [pc |-> "idle", run |-> 2, segments |-> <<>>, handed |-> FALSE,
                    i |-> 0, segmentPaths |-> <<>>, tempDir |-> FALSE,
                    output |-> NoResult, error |-> FALSE, message |-> "",
                    prevSegments |-> gen.segments,
                    removed |-> RankAmongEnabled(project.detections, j)]
    /\ UNCHANGED options
    /\ GenUnchanged

NextGenerate ==
    \/ ReadProject
    \/ PlanSegments
    \/ SliceSegment
    \/ SliceError
    \/ WriteOutput
    \/ Cleanup
    \/ DisableRecord

SpecGenerate == InitGenerate /\ [][NextGenerate]_vars

\* ---- extractAndConcatenateSegments called on a list of up to MaxSegments
\* ---- segments planned with a lead in 0..MaxLead, the empty list
\* ---- included: the slicing loop and what follows it, up to the return or
\* ---- the throw
MaxSegments == 3

InitSlicer ==
    /\ \E n \in 0..MaxSegments :
         \E ts \in [1..n -> 0..MaxPlanTime], b \in 0..MaxLead :
           gen = [pc |-> "slicing", run |-> 1,
                  segments |-> createVideoSegments(AsSeq([i \in 1..n |-> PlanEvent(ts[i])]),
                                                   b, DefaultAfter),
                  handed |-> TRUE, i |-> 0, segmentPaths |-> <<>>, tempDir |-> TRUE,
                  output |-> NoResult, error |-> FALSE, message |-> "",
                  prevSegments |-> <<>>, removed |-> 0]
    /\ project = IdleProject
    /\ options = IdleOptions
    /\ planIn = IdlePlanIn
    /\ planOut = IdlePlanOut
    /\ analysisOut = NoResult
    /\ video = IdleVideo
    /\ det = IdleDet
    /\ frame = [none |-> TRUE]
    /\ scoreResult = NoResult
    /\ dedupIn = IdleDedupIn
    /\ dedupOut = NoResult
    /\ rerunOut = NoResult

NextSlicer == SliceSegment \/ SliceError \/ WriteOutput

SpecSlicer == InitSlicer /\ [][NextSlicer]_vars

\* ---------------------------------------------- generateVideo: properties
RemoveAt(s, k) == SubSeq(s, 1, k - 1) \o SubSeq(s, k + 1, Len(s))

NumEnabled == Cardinality({ j \in 1..Len(project.detections) : project.detections[j].enabled })

\* C9: the list handed to the slicer has one segment per enabled record; a
\* run after one record was disabled hands over the previous run's segments
\* without that record's segment, the others unchanged and in the same order.
C9_DisableRemovesExactlyOne ==
    gen.handed =>
        /\ Len(gen.segments) = NumEnabled
        /\ gen.run = 2 => gen.segments = RemoveAt(gen.prevSegments, gen.removed)

\* a second run handed over segments after a record in the middle of three
\* enabled ones was disabled
C9_Witness ==
    /\ gen.handed
    /\ gen.run = 2
    /\ Len(gen.prevSegments) = 3
    /\ gen.removed = 2
    /\ Len(gen.segments) = 2
    /\ gen.segments[1] # gen.segments[2]

\* the slice recorded for the segment at position k of the list
SliceOf(k) ==
    [index |-> k - 1,
     seek |-> gen.segments[k].startTime,
     duration |-> gen.segments[k].duration]

\* C30: extractAndConcatenateSegments slices the segments one at a time in
\* list order, a slice starting only after the previous one ended
\* successfully; the concatenation list is in that order; the output is
\* written only after every slice succeeded; a failing slice aborts with no
\* output written; an empty list fails with 'No segments to concatenate';
\* a single segment is copied without concatenation.
C30_SlicerOrderAndOutput ==
    [][ /\ gen'.segments = gen.segments
        /\ gen'.i # gen.i =>
              /\ ~gen.error
              /\ Len(gen.segmentPaths) = gen.i
              /\ gen'.i = gen.i + 1
              /\ gen'.segmentPaths = Append(gen.segmentPaths, SliceOf(gen.i + 1))
        /\ gen'.output # gen.output =>
              /\ gen.output = NoResult
              /\ ~gen.error /\ ~gen'.error
              /\ gen.i = Len(gen.segments)
              /\ Len(gen.segments) >= 1
              /\ gen'.output.parts = AsSeq([k \in 1..Len(gen.segments) |-> SliceOf(k)])
              /\ gen'.output.how = IF Len(gen.segments) = 1 THEN "copy" ELSE "concat"
        /\ (gen'.error /\ gen.i < Len(gen.segments)) =>
              /\ gen'.message = "ffmpeg error"
              /\ gen'.pc = "cleanup"
              /\ gen'.i = gen.i
              /\ gen'.output = NoResult
        /\ (gen'.pc = "cleanup" /\ Len(gen.segments) = 0) =>
              /\ gen'.error
              /\ gen'.message = "No segments to concatenate"
              /\ gen'.output = NoResult ]_vars

\* three segments that are not in time order were sliced and concatenated
C30_Witness ==
    /\ gen.pc = "cleanup"
    /\ Len(gen.segments) = 3
    /\ gen.segments[1].startTime > gen.segments[2].startTime
    /\ gen.segments[3].startTime > gen.segments[1].startTime
    /\ gen.output # NoResult
    /\ gen.output.how = "concat"
    /\ Len(gen.output.parts) = 3
    /\ gen.output.parts[1].seek = gen.segments[1].startTime
    /\ gen.output.parts[2].index = 1

\* ============================================================ detection runs
\* detectOnly (src/src/detect-only.ts) and processVideo (src/unnamed/part_004),
\* with KillScreenDetector (src/src/detection/detector.ts).  Times are in
\* ticks: frame k is at k * (1 / frameRate) s = k ticks.

NumHot == 4          \* number of frames of the video whose scoring is drawn

DetectOnlyWindowSeconds == 5      \* deduplicateKillScreens(rawKillScreens, 5, 1)
DetectOnlyMinDetections == 1
ProcessVideoWindowSeconds == 2    \* deduplicateKillScreens(rawKillScreens, 2, 2)
ProcessVideoMinDetections == 2

\* isKillScreen of detectGlobalRed: killScore > 0.8, on a score in hundredths
IsKillScreen(killScore) == killScore * 10 > KillTenths * ConfOne

\* faulty variant: a frame whose scoring throws is left out of the results
detectKillScreenOrNothing(image, frameNumber) ==
    IF image.throws
    THEN <<>>
    ELSE <<[isKillScreen |-> IsKillScreen(image.killScore),
            confidence |-> image.killScore,
            frameNumber |-> frameNumber]>>

\* KillScreenDetector.detectKillScreen: the result for one frame, as the
\* list pushed onto results
detectKillScreen(image, frameNumber) ==
    IF image.throws
    THEN <<[isKillScreen |-> FALSE, confidence |-> 0, frameNumber |-> frameNumber]>>
    ELSE <<[isKillScreen |-> IsKillScreen(image.killScore),
            confidence |-> image.killScore,
            frameNumber |-> frameNumber]>>

\* KillScreenDetector.batchDetect: for (let i = 0; i < imagePaths.length; i++)
RECURSIVE BatchLoop(_, _, _)
BatchLoop(imagePaths, i, results) ==
    IF i >= Len(imagePaths) THEN results
    ELSE BatchLoop(imagePaths, i + 1, results \o detectKillScreen(imagePaths[i + 1], i))

batchDetect(imagePaths) == BatchLoop(imagePaths, 0, <<>>)

\* result.confidence >= confidenceThreshold, where the threshold is what
\* parseFloat returned (a comparison with NaN is false)
AtLeast(confidence, confidenceThreshold) ==
    /\ confidenceThreshold # NotANumber
    /\ confidence >= confidenceThreshold.value

\* the filter of detectOnly
PassesDetectOnly(result, confidenceThreshold) ==
    AtLeast(result.confidence, confidenceThreshold)

\* the filter of processVideo
PassesProcessVideo(result, confidenceThreshold) ==
    result.isKillScreen /\ AtLeast(result.confidence, confidenceThreshold)

Passes(result, opts) ==
    IF opts.command = "detect-only"
    THEN PassesDetectOnly(result, opts.threshold)
    ELSE PassesProcessVideo(result, opts.threshold)

\* .map(result => ({ frameNumber, timeInSeconds: frameNumber * (1 / frameRate),
\* confidence })), the time in ticks
ToKillScreen(result) ==
    [frameNumber |-> result.frameNumber,
     timeInSeconds |-> result.frameNumber,
     confidence |-> result.confidence]

RECURSIVE RawKillScreens(_, _)
RawKillScreens(detectionResults, opts) ==
    IF detectionResults = <<>> THEN <<>>
    ELSE (IF Passes(Head(detectionResults), opts)
          THEN <<ToKillScreen(Head(detectionResults))>> ELSE <<>>)
         \o RawKillScreens(Tail(detectionResults), opts)

WindowOf(opts) ==
    IF opts.command = "detect-only"
    THEN Ticks(DetectOnlyWindowSeconds) ELSE Ticks(ProcessVideoWindowSeconds)

MinDetectionsOf(opts) ==
    IF opts.command = "detect-only"
    THEN DetectOnlyMinDetections ELSE ProcessVideoMinDetections

\* the checks of validateAndProcessOptions (part_004:139-169), which no
\* command calls
ConfigurationError(opts) ==
    \/ opts.threshold = NotANumber
    \/ opts.threshold # NotANumber /\ opts.threshold.value < 0
    \/ opts.threshold # NotANumber /\ opts.threshold.value > ConfOne
    \/ opts.before < 0
    \/ opts.after < 0

\* the project object detectOnly writes
ProjectOf(opts, framePaths, rawKillScreens, clusterAnalysis, finalKillScreens) ==
    [processingOptions |-> [confidenceThreshold |-> opts.threshold,
                            beforeSeconds |-> opts.before,
                            afterSeconds |-> opts.after,
                            frameRate |-> FrameRate],
     statistics |-> [totalFrames |-> framePaths,
                     rawDetections |-> Len(rawKillScreens),
                     clusteredDetections |-> clusterAnalysis.totalClusters,
                     finalDetections |-> Len(finalKillScreens),
                     averageClusterSize |-> clusterAnalysis.averageClusterSize,
                     maxClusterSize |-> clusterAnalysis.maxClusterSize],
     detections |-> DetectionEntries(finalKillScreens)]

\* ---- the videos drawn: NumHot frames, spaced by gaps of 2 s, 2 s + 2
\* ---- ticks, 5 s + 1 tick and 1 tick in turn, are scored low (0.10),
\* ---- between the default threshold 0.7 and the kill cut 0.8 (0.75), high
\* ---- (0.90), or their scoring throws; every other frame is scored low
ScoreCold == ConfOne \div 10
ScoreWarm == ConfOne - 25
ScoreHot == ConfOne - 10

GapCycle == <<Ticks(AnalysisWindowSeconds), Ticks(AnalysisWindowSeconds) + 2,
              Ticks(DetectOnlyWindowSeconds) + 1, 1>>

RECURSIVE HotFrame(_)
HotFrame(k) ==
    IF k = 1 THEN 0 ELSE HotFrame(k - 1) + GapCycle[((k - 2) % Len(GapCycle)) + 1]

Outcomes == {"cold", "warm", "hot", "throws"}

ImageOf(outcome) ==
    [throws |-> outcome = "throws",
     killScore |-> IF outcome = "hot" THEN ScoreHot
                   ELSE IF outcome = "warm" THEN ScoreWarm
                   ELSE IF outcome = "cold" THEN ScoreCold ELSE 0]

FramesFrom(pick) ==
    AsSeq([i \in 1..(HotFrame(NumHot) + 1) |->
              IF \E k \in 1..NumHot : HotFrame(k) = i - 1
              THEN ImageOf(pick[CHOOSE k \in 1..NumHot : HotFrame(k) = i - 1])
              ELSE ImageOf("cold")])

\* ---- the options drawn: thresholds 0.7 and 0.9 with every command line,
\* ---- and three invalid configurations (threshold 1.5, threshold NaN,
\* ---- lead -1) with the plain command lines
DefaultMinDetections == 2      \* --min-detections <count>, default '2'

Configs ==
    { [threshold |-> [value |-> ConfOne - 30], before |-> DefaultBefore],
      [threshold |-> [value |-> ScoreHot], before |-> DefaultBefore],
      [threshold |-> [value |-> ConfOne + 50], before |-> DefaultBefore],
      [threshold |-> NotANumber, before |-> DefaultBefore],
      [threshold |-> [value |-> ConfOne - 30], before |-> 0 - 1] }

Commands ==
    { [command |-> "detect-only", minDetections |-> DefaultMinDetections,
       saveImages |-> s, dryRun |-> FALSE] : s \in BOOLEAN }
    \cup
    { [command |-> "detect-only", minDetections |-> DetectOnlyMinDetections,
       saveImages |-> FALSE, dryRun |-> FALSE] }
    \cup
    { [command |-> "smash-clip", minDetections |-> 0, saveImages |-> FALSE, dryRun |-> d] :
          d \in BOOLEAN }

Plain(c) == ~c.saveImages /\ ~c.dryRun /\ c.minDetections # DetectOnlyMinDetections

NoFile == [none |-> TRUE]
PartialFile == [partial |-> TRUE]

InitDetect ==
    /\ \E pick \in [1..NumHot -> Outcomes] : video = [frames |-> FramesFrom(pick)]
    /\ \E c \in Commands, cfg \in Configs :
         /\ (ConfigurationError([threshold |-> cfg.threshold, before |-> cfg.before,
                                 after |-> DefaultAfter]) => Plain(c))
         /\ options = [command |-> c.command,
                       threshold |-> cfg.threshold,
                       before |-> cfg.before,
                       after |-> DefaultAfter,
                       minDetections |-> c.minDetections,
                       saveImages |-> c.saveImages,
                       dryRun |-> c.dryRun]
    /\ det = [pc |-> "start",
              invoked |-> {},
              tempDir |-> FALSE,
              framePaths |-> 0,
              detectionResults |-> <<>>,
              rawKillScreens |-> <<>>,
              clusterAnalysis |-> NoResult,
              dedupClusters |-> <<>>,
              finalKillScreens |-> <<>>,
              savedImages |-> <<>>,
              segments |-> <<>>,
              output |-> NoResult,
              error |-> ""]
    /\ project = NoFile
    /\ analysisOut = NoResult
    /\ frame = [none |-> TRUE]
    /\ scoreResult = NoResult
    /\ dedupIn = IdleDedupIn
    /\ dedupOut = NoResult
    /\ rerunOut = NoResult
    /\ gen = IdleGen
    /\ planIn = IdlePlanIn
    /\ planOut = IdlePlanOut

DetUnchanged ==
    UNCHANGED <<frame, scoreResult, dedupIn, dedupOut, rerunOut, options, gen,
                planIn, planOut, analysisOut, video>>

\* faulty variant: the output file is opened for writing before the frames
\* are extracted
ExtractFramesAfterOpeningFile ==
    /\ det.pc = "start"
    /\ \E ok \in BOOLEAN :
         det' = [det EXCEPT !.invoked = @ \cup {"extractFrames"},
                            !.tempDir = TRUE,
                            !.framePaths = IF ok THEN Len(video.frames) ELSE 0,
                            !.error = IF ok THEN "" ELSE "extractFrames",
                            !.pc = IF ok THEN "extracted" ELSE "cleanup"]
    /\ project' = PartialFile
    /\ DetUnchanged

\* videoProcessor.extractFrames: the temporary directory is made, then
\* ffmpeg writes the frames or fails
ExtractFrames ==
    /\ det.pc = "start"
    /\ \E ok \in BOOLEAN :
         det' = [det EXCEPT !.invoked = @ \cup {"extractFrames"},
                            !.tempDir = TRUE,
                            !.framePaths = IF ok THEN Len(video.frames) ELSE 0,
                            !.error = IF ok THEN "" ELSE "extractFrames",
                            !.pc = IF ok THEN "extracted" ELSE "cleanup"]
    /\ UNCHANGED project
    /\ DetUnchanged

\* detector.batchDetect(framePaths)
BatchDetect ==
    /\ det.pc = "extracted"
    /\ det' = [det EXCEPT !.invoked = @ \cup {"batchDetect"},
                          !.detectionResults = batchDetect(video.frames),
                          !.pc = "scored"]
    /\ UNCHANGED project
    /\ DetUnchanged

\* the synchronous part after batchDetect: filter and map, cluster
\* analysis, deduplication; detectOnly goes on to save images or to write
\* the project, processVideo returns (no detection, dry run) or plans the
\* segments
FilterAndCluster ==
    /\ det.pc = "scored"
    /\ LET rawKillScreens == RawKillScreens(det.detectionResults, options)
           finalKillScreens == deduplicateKillScreens(rawKillScreens, WindowOf(options),
                                                      MinDetectionsOf(options))
       IN  det' = [det EXCEPT
                     !.rawKillScreens = rawKillScreens,
                     !.clusterAnalysis = analyzeDetectionClusters(rawKillScreens),
                     !.dedupClusters = IF Len(rawKillScreens) = 0 THEN <<>>
                                       ELSE BuildClusters(rawKillScreens, WindowOf(options)),
                     !.finalKillScreens = finalKillScreens,
                     !.segments =
                         IF options.command = "smash-clip" /\ Len(finalKillScreens) # 0
                            /\ ~options.dryRun
                         THEN createVideoSegments(finalKillScreens, Ticks(options.before),
                                                  Ticks(options.after))
                         ELSE <<>>,
                     !.pc =
                         IF options.command = "detect-only"
                         THEN IF options.saveImages /\ Len(finalKillScreens) > 0
                              THEN "images" ELSE "writing"
                         ELSE IF Len(finalKillScreens) = 0 \/ options.dryRun
                              THEN "cleanup" ELSE "slicing"]
    /\ UNCHANGED project
    /\ DetUnchanged

\* --save-images: fs.mkdir may fail (fatal); a failing copyFile is caught
SaveImages ==
    /\ det.pc = "images"
    /\ \E ok \in BOOLEAN :
         det' = [det EXCEPT
                   !.savedImages =
                       IF ok
                       THEN SelectSeq(AsSeq([i \in 1..Len(det.finalKillScreens) |->
                                                 det.finalKillScreens[i].frameNumber]),
                                      LAMBDA n : n < det.framePaths)
                       ELSE <<>>,
                   !.error = IF ok THEN "" ELSE "mkdir",
                   !.pc = IF ok THEN "writing" ELSE "cleanup"]
    /\ UNCHANGED project
    /\ DetUnchanged

\* fs.writeFile(outputPath, JSON.stringify(project)): on failure the file is
\* absent or holds a part of the text
WriteProject ==
    /\ det.pc = "writing"
    /\ \/ /\ project' = ProjectOf(options, det.framePaths, det.rawKillScreens,
                                  det.clusterAnalysis, det.finalKillScreens)
          /\ det' = [det EXCEPT !.pc = "cleanup"]
       \/ /\ project' \in {NoFile, PartialFile}
          /\ det' = [det EXCEPT !.pc = "cleanup", !.error = "writeFile"]
    /\ DetUnchanged

\* videoProcessor.extractAndConcatenateSegments(inputPath, segments, outputPath)
SliceAndConcatenate ==
    /\ det.pc = "slicing"
    /\ \E ok \in BOOLEAN :
         det' = [det EXCEPT !.invoked = @ \cup {"slicer"},
                            !.output = IF ok THEN [segments |-> det.segments] ELSE NoResult,
                            !.error = IF ok THEN "" ELSE "slicer",
                            !.pc = "cleanup"]
    /\ UNCHANGED project
    /\ DetUnchanged

\* faulty variant: a failed run ends without the cleanup
CleanupRunOnSuccessOnly ==
    /\ det.pc = "cleanup"
    /\ det' = [det EXCEPT !.tempDir = IF det.error = "" THEN FALSE ELSE @,
                          !.pc = IF det.error = "" THEN "done" ELSE "failed"]
    /\ UNCHANGED project
    /\ DetUnchanged

\* finally { await videoProcessor.cleanup() }, then the result or the error
\* reaches the caller
CleanupRun ==
    /\ det.pc = "cleanup"
    /\ det' = [det EXCEPT !.tempDir = FALSE,
                          !.pc = IF det.error = "" THEN "done" ELSE "failed"]
    /\ UNCHANGED project
    /\ DetUnchanged

NextDetect ==
    \/ ExtractFrames
    \/ BatchDetect
    \/ FilterAndCluster
    \/ SaveImages
    \/ WriteProject
    \/ SliceAndConcatenate
    \/ CleanupRun

SpecDetect == InitDetect /\ [][NextDetect]_vars

\* ==================================================== records of a detection
\* (SpecRecords)

\* C11: for every input, time-sorted or not, the records made from the
\* list deduplicateKillScreens returns are in ascending order of timestamp,
\* their ids are exactly 1..N in that order, they are the returned list
\* entry for entry, and every record is created with enabled = true.
C11_PersistedRecordsOrdered ==
    (project # IdleProject /\ dedupOut # NoResult) =>
        LET d == project.detections
            final == dedupOut.filteredKillScreens
        IN  /\ Len(d) = Len(final)
            /\ \A i \in 1..Len(d) :
                  /\ d[i].id = i
                  /\ d[i].enabled = TRUE
                  /\ d[i].timeInSeconds = final[i].timeInSeconds
                  /\ d[i].frameNumber = final[i].frameNumber
            /\ \A i \in 1..(Len(d) - 1) : d[i].timeInSeconds <= d[i + 1].timeInSeconds

\* a list that was not given in time order and produced at least two records
C11_Witness ==
    /\ project # IdleProject
    /\ dedupOut # NoResult
    /\ Len(project.detections) >= 2
    /\ \E i \in 1..(Len(dedupIn.killScreens) - 1) :
          dedupIn.killScreens[i].timeInSeconds > dedupIn.killScreens[i + 1].timeInSeconds

\* C12: the empty list is not an error: deduplicateKillScreens returns the
\* empty list for every window and minimum size, and analyzeDetectionClusters
\* returns totalClusters = 0, averageClusterSize = 0 and maxClusterSize = 0.
C12_EmptyInputIsNotAnError ==
    Len(dedupIn.killScreens) = 0 =>
        /\ dedupOut # NoResult =>
              /\ dedupOut.filteredKillScreens = <<>>
              /\ dedupOut.clusters = <<>>
        /\ analysisOut # NoResult =>
              /\ analysisOut.totalClusters = 0
              /\ analysisOut.averageClusterSize = RInt(0)
              /\ analysisOut.maxClusterSize = 0
              /\ analysisOut.clusters = <<>>

\* both functions have returned for the empty list
C12_Witness ==
    /\ Len(dedupIn.killScreens) = 0
    /\ dedupOut # NoResult
    /\ analysisOut # NoResult
    /\ dedupIn.mergeWindowSeconds = MaxWindow
    /\ dedupIn.minConsecutiveDetections = MaxMinSize

\* ---- frame files: ffmpeg writes the k-th frame (k from 1) to
\* ---- frame_%04d.png; extractFrames returns the names of the directory
\* ---- sorted by Array.prototype.sort (UTF-16 code units) and batchDetect
\* ---- numbers them by their index in that list
MaxFrames == 10000   \* largest number of frames written that is drawn

PadWidth == 4        \* frame_%04d.png
DotCode == 46        \* the code unit of '.', which follows the digits
ZeroCode == 48       \* the code unit of '0'

\* the decimal digits of k, most significant first
RECURSIVE Digits(_)
Digits(k) == IF k < 10 THEN <<k>> ELSE Append(Digits(k \div 10), k % 10)

\* %04d: at least four digits, padded with zeros
Padded(k) ==
    LET d == Digits(k)
    IN  IF Len(d) >= PadWidth THEN d
        ELSE AsSeq([i \in 1..(PadWidth - Len(d)) |-> 0]) \o d

\* the code units of the name from the first digit to the '.'; the prefix
\* "frame_" is common to all names and no comparison of two names goes
\* beyond the '.'
FileName(k) ==
    LET d == Padded(k)
    IN  AsSeq([i \in 1..(Len(d) + 1) |-> IF i <= Len(d) THEN ZeroCode + d[i] ELSE DotCode])

\* a sorts before b in code unit order
RECURSIVE SortsBefore(_, _, _)
SortsBefore(a, b, i) ==
    IF i > Len(a) THEN i <= Len(b)
    ELSE IF i > Len(b) THEN FALSE
    ELSE IF a[i] # b[i] THEN a[i] < b[i]
    ELSE SortsBefore(a, b, i + 1)

\* the index of the k-th frame's name in files.sort() when n frames were
\* written: the number of names that sort before it (the names are distinct)
SortedIndex(k, n) ==
    LET name == FileName(k)
    IN  Cardinality({ j \in 1..n : SortsBefore(FileName(j), name, 1) })

\* the numbers of frames drawn, and the frames followed
FrameCounts == (1..12) \cup {MaxFrames - 1, MaxFrames}

Followed(n) ==
    { k \in 1..n : \/ k <= 12
                   \/ k > n - 3
                   \/ k \in {99, 100, 101, 999, 1000, 1001, 1002} }

InitFrames ==
    /\ \E n \in FrameCounts : \E k \in Followed(n) : video = [written |-> n, frame |-> k]
    /\ det = IdleDet
    /\ analysisOut = NoResult
    /\ project = IdleProject
    /\ options = IdleOptions
    /\ frame = [none |-> TRUE]
    /\ scoreResult = NoResult
    /\ dedupIn = IdleDedupIn
    /\ dedupOut = NoResult
    /\ rerunOut = NoResult
    /\ gen = IdleGen
    /\ planIn = IdlePlanIn
    /\ planOut = IdlePlanOut

\* extractFrames, batchDetect and the map of detectOnly, for the frame
\* followed: its index in the sorted list, its frameNumber and its time
NumberFrame ==
    /\ det = IdleDet
    /\ LET index == SortedIndex(video.frame, video.written)
       IN  det' = [pc |-> "numbered",
                   index |-> index,
                   frameNumber |-> index,
                   timeInSeconds |-> index]
    /\ UNCHANGED project
    /\ DetUnchanged

NextFrames == NumberFrame

SpecFrames == InitFrames /\ [][NextFrames]_vars

\* C26 (as claimed): for any number of extracted frames the k-th frame
\* written is at position k-1 of the sorted list, gets frameNumber k-1 and
\* the time (k-1) / frameRate.
C26_FrameIndexIsChronological ==
    det.pc = "numbered" =>
        /\ det.index = video.frame - 1
        /\ det.frameNumber = video.frame - 1
        /\ det.timeInSeconds = video.frame - 1

\* ---- every command: a detect-only or smash-clip run, or a generate-video
\* ---- run (with its second run after a record is disabled)
InitRuns == InitDetect \/ InitGenerate

NextRuns == NextDetect \/ NextGenerate

SpecRuns == InitRuns /\ [][NextRuns]_vars

\* ================================================ detection runs: properties
\* (SpecDetect, SpecRuns)

\* cl is the greedy partition of the time-sorted list input with window w
GreedyPartitionOf(cl, input, w) ==
    /\ AllDetections(cl) = input
    /\ \A c \in 1..Len(cl) :
          /\ Size(cl[c]) >= 1
          /\ \A j \in 1..(Size(cl[c]) - 1) :
                cl[c].detections[j + 1].timeInSeconds
                   - cl[c].detections[j].timeInSeconds <= w
    /\ \A c \in 1..(Len(cl) - 1) :
          cl[c + 1].detections[1].timeInSeconds
             - cl[c].detections[Size(cl[c])].timeInSeconds > w

Clustered == det.pc # "idle" /\ det.clusterAnalysis # NoResult

C14_BatchDetectSurvivesFailures ==
    (det.pc # "idle" /\ "batchDetect" \in det.invoked) =>
        LET r == det.detectionResults
        IN  /\ Len(r) = Len(video.frames)
            /\ \A i \in 1..Len(r) :
                  /\ r[i].frameNumber = i - 1
                  /\ video.frames[i].throws =>
                        r[i].confidence = 0 /\ r[i].isKillScreen = FALSE
                  /\ ~video.frames[i].throws =>
                        /\ r[i].confidence = video.frames[i].killScore
                        /\ r[i].isKillScreen = (video.frames[i].killScore * 10 > 8 * ConfOne)

\* a batch in which a frame fails and a later frame is scored high
C14_Witness ==
    /\ det.pc # "idle"
    /\ "batchDetect" \in det.invoked
    /\ \E i \in 1..Len(video.frames), j \in 1..Len(video.frames) :
          /\ i < j
          /\ video.frames[i].throws
          /\ det.detectionResults[j].isKillScreen

\* C16 (as claimed): in detectOnly and in processVideo a scored frame is
\* passed to the clusterer iff its confidence is at or above the configured
\* confidenceThreshold.
C16_ThresholdFilter ==
    Clustered =>
        \A i \in 1..Len(det.detectionResults) :
            LET r == det.detectionResults[i]
            IN  (options.threshold # NotANumber /\ r.confidence >= options.threshold.value)
                <=> (\E j \in 1..Len(det.rawKillScreens) :
                        det.rawKillScreens[j].frameNumber = r.frameNumber)

\* C17 (as claimed): with a configuration error (threshold outside [0,1] or
\* not a number, negative lead or trail) neither extractFrames nor
\* batchDetect nor the slicer is ever invoked.
C17_ConfigErrorStopsRun ==
    (det.pc # "idle" /\ ConfigurationError(options)) => det.invoked = {}

\* C20 (as claimed): a detect-only run persists no record for a cluster
\* with fewer detections than --min-detections.
C20_MinDetectionsHonoured ==
    (det.pc # "idle" /\ options.command = "detect-only"
       /\ project # NoFile /\ project # PartialFile) =>
        \A c \in 1..Len(det.dedupClusters) :
            Size(det.dedupClusters[c]) < options.minDetections =>
                \A d \in 1..Len(project.detections) :
                    \A k \in 1..Size(det.dedupClusters[c]) :
                        project.detections[d].frameNumber
                           # det.dedupClusters[c].detections[k].frameNumber

Persisted ==
    /\ det.pc \in {"cleanup", "done"}
    /\ options.command = "detect-only"
    /\ det.error = ""

\* C21 (as claimed): in the statistics a detection run persists,
\* rawDetections is the number of samples passed to the clusterer,
\* finalDetections is the number of persisted records, and
\* clusteredDetections - finalDetections is the number of clusters the
\* deduplication pass discarded.
C21_StatisticsAccountForDrops ==
    Persisted =>
        LET discarded ==
                Cardinality({ c \in 1..Len(det.dedupClusters) :
                                Size(det.dedupClusters[c]) < MinDetectionsOf(options) })
        IN  /\ project.statistics.rawDetections = Len(det.rawKillScreens)
            /\ project.statistics.finalDetections = Len(project.detections)
            /\ project.statistics.clusteredDetections - project.statistics.finalDetections
                  = discarded

C24_GenerationResumesFromFile ==
    gen.pc # "absent" =>
        /\ det = IdleDet
        /\ video = IdleVideo
        /\ scoreResult = NoResult
        /\ dedupOut = NoResult
        /\ analysisOut = NoResult
        /\ gen.handed =>
              LET enabled == SelectSeq(project.detections, LAMBDA d : d.enabled)
                  b == IF options.before = NoOption
                       THEN project.processingOptions.beforeSeconds
                       ELSE options.before.value
                  a == IF options.after = NoOption
                       THEN project.processingOptions.afterSeconds
                       ELSE options.after.value
              IN  /\ Len(gen.segments) = Len(enabled)
                  /\ \A i \in 1..Len(enabled) :
                        enabled[i].timeInSeconds # Undefined =>
                            /\ gen.segments[i].startTime
                                  = Max(0, enabled[i].timeInSeconds - b)
                            /\ gen.segments[i].endTime = enabled[i].timeInSeconds + a

\* three enabled records one second apart were handed over as three segments
C24_Witness ==
    /\ gen.pc # "absent"
    /\ gen.handed
    /\ Len(gen.segments) = 3
    /\ \A i \in 1..3 : project.detections[i].enabled
    /\ project.detections[1].timeInSeconds # Undefined
    /\ Abs(project.detections[2].timeInSeconds - project.detections[1].timeInSeconds) = 1
    /\ gen.segments[1].endTime # gen.segments[2].endTime

\* =============================================== generation: invalid files
\* (SpecGenerate)

StructurallyInvalid(proj) ==
    \/ ~proj.readable
    \/ ~proj.hasDetections
    \/ \E j \in 1..Len(proj.detections) : proj.detections[j].timeInSeconds = Undefined

\* C19 (as claimed): with a project file that is unreadable, not JSON,
\* without the detections list or with records lacking timeInSeconds, the
\* slicer is never invoked and no output video is written.
C19_InvalidProjectIsFatal ==
    (gen.pc # "idle" /\ StructurallyInvalid(project)) =>
        /\ ~gen.handed
        /\ gen.output = NoResult

====
